---- MODULE Spec2Model ----
(***************************************************************************)
(* The thyroid-cancer dashboard of src/app.py as a state machine.          *)
(*                                                                         *)
(* The script is a Streamlit page: it is executed top to bottom once when  *)
(* the page is opened and once more, in full, after every change of a      *)
(* sidebar widget.  One action of the model is one such execution.  The    *)
(* state is the CSV file, the cache of load_data, the values the widgets   *)
(* hold between executions and what the last execution handed to the page. *)
(*                                                                         *)
(* Numbers are integers: an Age is a whole number of years, a lab value a  *)
(* whole number of measurement units.  A missing cell (pandas NaN) is the  *)
(* value NaN, a missing label the string NoLabel.  The scatter plot and    *)
(* the y_metric widget (lines 24, 39-62) read filtered_df and change       *)
(* nothing else; they are left out.  The files considered hold at least    *)
(* one record, and their Gender and Country cells are never empty.         *)
(* Histogram edges and correlation coefficients are exact fractions, not   *)
(* floating-point numbers.                                                 *)
(***************************************************************************)
EXTENDS Integers, Sequences, FiniteSets, TLC

VARIABLES csv, cache, reads, df,
          age_range, gender_filter, country_filter, bin_count, heatmap_cols,
          status, filtered_df, risk_counts, hist, edges, diag_counts,
          heat, heatmap_data, summary_table

widgets == <<age_range, gender_filter, country_filter, bin_count, heatmap_cols>>
outputs == <<status, filtered_df, risk_counts, hist, edges, diag_counts,
             heat, heatmap_data, summary_table>>
vars == <<csv, cache, reads, df, widgets, outputs>>

(***************************************************************************)
(* Bounds of the model.                                                    *)
(***************************************************************************)
MaxRows == 3

(***************************************************************************)
(* Cells.                                                                  *)
(***************************************************************************)
\* an empty numeric cell, which read_csv loads as NaN
NaN == -1
\* a numeric cell whose text is not a number; read_csv keeps it as a string
Unparseable == -2
\* an empty categorical cell
NoLabel == "<NA>"
\* a correlation coefficient that is NaN; real coefficients are -100..100
NaNCoef == 200

Row(a, g, c, risk, diag, tsh, t3, t4, nod) ==
    [Age |-> a, Gender |-> g, Country |-> c, Thyroid_Cancer_Risk |-> risk,
     Diagnosis |-> diag, TSH_Level |-> tsh, T3_Level |-> t3, T4_Level |-> t4,
     Nodule_Size |-> nod]

\* the rows a file is made of when every Age cell is a number or empty
FileRows ==
    { Row(25,  "F", "US", "Low",    "Benign",    2,   1, 5, 1),
      Row(70,  "M", "UK", "High",   "Malignant", 4,   3, 9, 3),
      Row(NaN, "F", "US", "Medium", "Benign",    3,   2, 7, 2),
      Row(52,  "M", "US", NoLabel,  NoLabel,     NaN, 2, 6, 2) }

\* the rows of a file in which an Age cell may also hold text
RawFileRows ==
    { Row(25,          "F", "US", "Low",  "Benign",    2, 1, 5, 1),
      Row(70,          "M", "UK", "High", "Malignant", 4, 3, 9, 3),
      Row(NaN,         "F", "US", "Low",  "Benign",    3, 2, 7, 2),
      Row(Unparseable, "M", "US", "High", "Malignant", 3, 2, 6, 2) }

SeqsUpTo(S, n) == UNION { [1..k -> S] : k \in 0..n }

(***************************************************************************)
(* The widgets of the sidebar (lines 19-30).                               *)
(***************************************************************************)
AgeSliderMin == 0
AgeSliderMax == 100
AgeDefaultLo == 20
AgeDefaultHi == 60
BinSliderMin == 5
BinSliderMax == 30
BinDefault == 10
NumericColumns == <<"Age", "TSH_Level", "T3_Level", "T4_Level", "Nodule_Size">>

\* the positions of the age slider, the bin slider and the multiselect that
\* the user moves them to
AgeRangeChoices == { <<AgeDefaultLo, AgeDefaultHi>>, <<AgeSliderMin, AgeSliderMax>>,
                     <<25, 70>>, <<53, AgeSliderMax>> }
BinChoices == { BinSliderMin, BinDefault }
HeatmapChoices == { <<>>, <<"Age">>, <<"Nodule_Size", "Age">>, NumericColumns }

(***************************************************************************)
(* load_data (lines 9-15): pd.read_csv behind st.cache_data.               *)
(***************************************************************************)
\* read_csv gives the rows of the file a RangeIndex 0..n-1
read_csv(file) == [i \in 1..Len(file) |-> [index |-> i - 1, row |-> file[i]]]

\* read_csv infers the dtype of a column from its cells: a column with a
\* cell that is no number is an object column of strings
AgeDtype(d) ==
    IF \E i \in DOMAIN d : d[i].row.Age = Unparseable THEN "object"
    ELSE IF \E i \in DOMAIN d : d[i].row.Age = NaN THEN "float64"
    ELSE "int64"

\* load_data without st.cache_data: the file is read on every call
load_data_uncached ==
    [value |-> read_csv(csv),
     cache |-> [filled |-> TRUE, value |-> read_csv(csv)],
     reads |-> reads + 1]

\* st.cache_data runs the body on the first call and returns the stored
\* value on every later call
load_data ==
    IF cache.filled
    THEN [value |-> cache.value, cache |-> cache, reads |-> reads]
    ELSE [value |-> read_csv(csv),
          cache |-> [filled |-> TRUE, value |-> read_csv(csv)],
          reads |-> reads + 1]

(***************************************************************************)
(* Apply Filters (lines 32-37).                                            *)
(***************************************************************************)
\* the upper bound of the age slider taken as exclusive
AgeInRangeUpperOpen(a, lo, hi) == a # NaN /\ a >= lo /\ a < hi

\* a comparison with NaN is False
AgeInRange(a, lo, hi) == a # NaN /\ a >= lo /\ a <= hi

\* the selected rows, last first
BoolIndexReversed(d, mask) ==
    LET pos == SelectSeq([i \in 1..Len(d) |-> i], LAMBDA i : mask[i])
    IN  [k \in 1..Len(pos) |-> d[pos[Len(pos) + 1 - k]]]

\* df[mask]: the rows whose mask is True, with their index, in df's order
BoolIndex(d, mask) ==
    LET pos == SelectSeq([i \in 1..Len(d) |-> i], LAMBDA i : mask[i])
    IN  [k \in 1..Len(pos) |-> d[pos[k]]]

FilterStage(d, lo, hi, g, c) ==
    LET byAge == BoolIndex(d, [i \in 1..Len(d) |-> AgeInRange(d[i].row.Age, lo, hi)])
        byGender == IF g # "All"
                    THEN BoolIndex(byAge, [i \in 1..Len(byAge) |-> byAge[i].row.Gender = g])
                    ELSE byAge
        byCountry == IF c # "All"
                     THEN BoolIndex(byGender,
                                    [i \in 1..Len(byGender) |-> byGender[i].row.Country = c])
                     ELSE byGender
    IN  byCountry

\* ["All"] + sorted(df[col].unique().tolist()), as the set of its entries
GenderOptions(d) == {"All"} \cup { d[i].row.Gender : i \in DOMAIN d }
CountryOptions(d) == {"All"} \cup { d[i].row.Country : i \in DOMAIN d }

(***************************************************************************)
(* Category counts (lines 66-70 and 100-104).                              *)
(***************************************************************************)
\* the order Python gives the labels
AlphabeticalOrder == <<"Benign", "High", "Low", "Malignant", "Medium">>
\* NaN sorts after every label
LabelRank(l) ==
    IF l = NoLabel THEN Len(AlphabeticalOrder) + 1
    ELSE CHOOSE k \in DOMAIN AlphabeticalOrder : AlphabeticalOrder[k] = l

\* value_counts(dropna=False): NaN counted as a category of its own
value_counts_keepna(col) ==
    LET labels == { col[i] : i \in DOMAIN col }
        count(l) == Cardinality({ i \in DOMAIN col : col[i] = l })
        first(l) == CHOOSE i \in DOMAIN col :
                        col[i] = l /\ \A j \in 1..(i - 1) : col[j] # l
        before(a, b) == count(a) > count(b) \/ (count(a) = count(b) /\ first(a) < first(b))
        at(k) == CHOOSE l \in labels : Cardinality({ m \in labels : before(m, l) }) = k - 1
    IN  [k \in 1..Cardinality(labels) |-> [label |-> at(k), count |-> count(at(k))]]

\* Series.value_counts(): one entry per distinct value, NaN dropped, the
\* most frequent first, equal counts in order of first appearance
value_counts(col) ==
    LET labels == { col[i] : i \in DOMAIN col } \ {NoLabel}
        count(l) == Cardinality({ i \in DOMAIN col : col[i] = l })
        first(l) == CHOOSE i \in DOMAIN col :
                        col[i] = l /\ \A j \in 1..(i - 1) : col[j] # l
        before(a, b) == count(a) > count(b) \/ (count(a) = count(b) /\ first(a) < first(b))
        at(k) == CHOOSE l \in labels : Cardinality({ m \in labels : before(m, l) }) = k - 1
    IN  [k \in 1..Cardinality(labels) |-> [label |-> at(k), count |-> count(at(k))]]

\* Series.sort_index(): the entries by ascending label
sort_index(vc) ==
    LET before(a, b) == LabelRank(a.label) < LabelRank(b.label)
        at(k) == CHOOSE i \in DOMAIN vc :
                     Cardinality({ j \in DOMAIN vc : before(vc[j], vc[i]) }) = k - 1
    IN  [k \in 1..Len(vc) |-> vc[at(k)]]

Column(d, name) ==
    [i \in 1..Len(d) |->
        CASE name = "Age" -> d[i].row.Age
          [] name = "TSH_Level" -> d[i].row.TSH_Level
          [] name = "T3_Level" -> d[i].row.T3_Level
          [] name = "T4_Level" -> d[i].row.T4_Level
          [] name = "Nodule_Size" -> d[i].row.Nodule_Size
          [] name = "Thyroid_Cancer_Risk" -> d[i].row.Thyroid_Cancer_Risk
          [] name = "Diagnosis" -> d[i].row.Diagnosis]

\* the palette of the pie chart; assigning colors[:len(diag_data)] to a frame
\* with more rows than colours raises ValueError
NumColors == 5

(***************************************************************************)
(* np.histogram(filtered_df["Age"], bins=bin_count) (lines 85-86).         *)
(* An edge is a fraction; edges holds the numerators over EdgeDen(n).      *)
(***************************************************************************)
EdgeDen(n) == 2 * n

SeqMin(a) == CHOOSE x \in { a[i] : i \in DOMAIN a } : \A i \in DOMAIN a : x <= a[i]
SeqMax(a) == CHOOSE x \in { a[i] : i \in DOMAIN a } : \A i \in DOMAIN a : x >= a[i]

\* numpy's outer edges, doubled: (0, 1) for no data, (min, max) of the data,
\* widened to (min - 0.5, max + 0.5) when the two are equal
OuterEdges(a) ==
    IF Len(a) = 0 THEN [first |-> 0, last |-> 2]
    ELSE IF SeqMin(a) = SeqMax(a)
         THEN [first |-> 2 * SeqMin(a) - 1, last |-> 2 * SeqMax(a) + 1]
         ELSE [first |-> 2 * SeqMin(a), last |-> 2 * SeqMax(a)]

\* np.linspace(first, last, n + 1)
BinEdges(a, n) ==
    LET o == OuterEdges(a)
    IN  [k \in 1..(n + 1) |-> n * o.first + (k - 1) * (o.last - o.first)]

\* bins closed at their upper edge: a value on an edge goes to the bin that
\* ends there
BinIndexUpperClosed(v, o, n) ==
    LET num == (2 * v - o.first) * n
        f == num \div (o.last - o.first)
    IN  IF num % (o.last - o.first) = 0 /\ f > 0 THEN f - 1 ELSE f

\* the bin of a value: its distance from the first edge in bin widths, cut
\* to a whole number; a value on the last edge goes to the last bin
BinIndex(v, o, n) ==
    LET f == ((2 * v - o.first) * n) \div (o.last - o.first)
    IN  IF f = n THEN n - 1 ELSE f

\* the counts without the data that lie on the last edge
BinCountsLastOpen(a, n) ==
    LET o == OuterEdges(a)
    IN  [k \in 1..n |->
            Cardinality({ i \in DOMAIN a :
                2 * a[i] # o.last /\ BinIndex(a[i], o, n) = k - 1 })]

BinCounts(a, n) ==
    LET o == OuterEdges(a)
    IN  [k \in 1..n |-> Cardinality({ i \in DOMAIN a : BinIndex(a[i], o, n) = k - 1 })]

\* np.histogram refuses data whose range is not finite
HistogramRaises(a) == \E i \in DOMAIN a : a[i] = NaN

(***************************************************************************)
(* filtered_df[heatmap_cols].corr().round(2) (lines 126-130).              *)
(* A coefficient is held in hundredths.                                    *)
(***************************************************************************)
RECURSIVE Isqrt(_, _, _)
\* the largest m in lo..hi with m * m <= x
Isqrt(x, lo, hi) ==
    IF lo = hi THEN lo
    ELSE LET mid == (lo + hi + 1) \div 2
         IN  IF mid * mid <= x THEN Isqrt(x, mid, hi) ELSE Isqrt(x, lo, mid - 1)

RECURSIVE SumTo(_, _)
\* f[1] + ... + f[k]
SumTo(f, k) == IF k = 0 THEN 0 ELSE f[k] + SumTo(f, k - 1)

\* r = cov / sqrt(vx * vy) in hundredths, rounded half away from zero, from
\* the sums over the n rows used; NaN without such rows or when one of the
\* columns does not vary over them
Coefficient(n, sx, sy, sxy, sxx, syy) ==
    LET cov == n * sxy - sx * sy
        den == (n * sxx - sx * sx) * (n * syy - sy * sy)
        \* floor(40000 * cov^2 / den) = floor((200 r)^2), by long division
        sq == IF cov * cov = den THEN 40000
              ELSE LET x1 == 200 * (cov * cov)
                   IN  200 * (x1 \div den) + (200 * (x1 % den)) \div den
        mag == (Isqrt(sq, 0, 200) + 1) \div 2
    IN  IF n = 0 \/ den = 0 THEN NaNCoef
        ELSE IF cov < 0 THEN 0 - mag ELSE mag

\* Pearson's coefficient of two columns over the rows where both are present
Pearson(x, y) ==
    LET m == Len(x)
        ok == [i \in 1..m |-> x[i] # NaN /\ y[i] # NaN]
        over(f) == SumTo([i \in 1..m |-> IF ok[i] THEN f[i] ELSE 0], m)
    IN  Coefficient(over([i \in 1..m |-> 1]), over(x), over(y),
                    over([i \in 1..m |-> x[i] * y[i]]),
                    over([i \in 1..m |-> x[i] * x[i]]),
                    over([i \in 1..m |-> y[i] * y[i]]))

\* the guard weakened to one column
EnoughColumnsOne(cols) == Len(cols) >= 1

\* the guard of the heatmap (line 126)
EnoughColumns(cols) == Len(cols) >= 2

\* one (x, y, value) row for x in corr.columns for y in corr.columns
HeatmapData(d, cols) ==
    LET k == Len(cols)
    IN  [p \in 1..(k * k) |->
            LET x == cols[((p - 1) \div k) + 1]
                y == cols[((p - 1) % k) + 1]
            IN  [x |-> x, y |-> y, value |-> Pearson(Column(d, y), Column(d, x))]]

(***************************************************************************)
(* One execution of the script (lines 15-157) on the table d with the      *)
(* widget values lo, hi, g, c, n, cols: what it hands to the page.  An     *)
(* exception ends the execution; what was handed over before it stays.     *)
(***************************************************************************)
Blank == [status |-> "idle", filtered_df |-> <<>>, risk_counts |-> <<>>,
          hist |-> <<>>, edges |-> <<>>, diag_counts |-> <<>>,
          heat |-> "none", heatmap_data |-> <<>>, summary_table |-> <<>>]

\* filtered_df[[...]].reset_index(drop=True) (lines 154-157)
SummaryTable(f) == [i \in 1..Len(f) |-> [index |-> i - 1, row |-> f[i].row]]

Script(d, lo, hi, g, c, n, cols) ==
    IF AgeDtype(d) = "object"
    THEN \* line 33: '>=' between str and int
         [Blank EXCEPT !.status = "TypeError"]
    ELSE
    LET f == FilterStage(d, lo, hi, g, c)
        risk == sort_index(value_counts(Column(f, "Thyroid_Cancer_Risk")))
        ages == Column(f, "Age")
        shown == [Blank EXCEPT !.filtered_df = f, !.risk_counts = risk]
    IN  IF HistogramRaises(ages)
        THEN [shown EXCEPT !.status = "ValueError"]
        ELSE
        LET diag == value_counts(Column(f, "Diagnosis"))
            binned == [shown EXCEPT !.hist = BinCounts(ages, n),
                                    !.edges = BinEdges(ages, n)]
        IN  IF Len(diag) > NumColors
            THEN [binned EXCEPT !.status = "ValueError"]
            ELSE [binned EXCEPT
                     !.status = "ok",
                     !.diag_counts = diag,
                     !.heat = IF EnoughColumns(cols) THEN "matrix" ELSE "warning",
                     !.heatmap_data = IF EnoughColumns(cols) THEN HeatmapData(f, cols)
                                      ELSE <<>>,
                     !.summary_table = SummaryTable(f)]

\* an execution that filters what the previous one left in filtered_df
RerunOnPrevious(lo, hi, g, c, n, cols) ==
    Script(IF status = "ok" THEN filtered_df ELSE load_data.value, lo, hi, g, c, n, cols)

\* the execution that follows the widgets taking the values lo, hi, g, c, n,
\* cols: df = load_data(), then the rest of the script
Rerun(lo, hi, g, c, n, cols) == Script(load_data.value, lo, hi, g, c, n, cols)

Execute(lo, hi, g, c, n, cols) ==
    \E l \in {load_data} : \E r \in {Rerun(lo, hi, g, c, n, cols)} :
        /\ df' = l.value
        /\ cache' = l.cache
        /\ reads' = l.reads
        /\ csv' = csv
        /\ age_range' = <<lo, hi>>
        /\ gender_filter' = g
        /\ country_filter' = c
        /\ bin_count' = n
        /\ heatmap_cols' = cols
        /\ status' = r.status
        /\ filtered_df' = r.filtered_df
        /\ risk_counts' = r.risk_counts
        /\ hist' = r.hist
        /\ edges' = r.edges
        /\ diag_counts' = r.diag_counts
        /\ heat' = r.heat
        /\ heatmap_data' = r.heatmap_data
        /\ summary_table' = r.summary_table

(***************************************************************************)
(* The state machine.                                                      *)
(***************************************************************************)
\* the process has started and no session has run the script yet; the
\* widgets hold their defaults (lines 21-30)
InitWith(rows) ==
    /\ csv \in SeqsUpTo(rows, MaxRows) \ {<<>>}
    /\ cache = [filled |-> FALSE, value |-> <<>>]
    /\ reads = 0
    /\ df = <<>>
    /\ age_range = <<AgeDefaultLo, AgeDefaultHi>>
    /\ gender_filter = "All"
    /\ country_filter = "All"
    /\ bin_count = BinDefault
    /\ heatmap_cols = NumericColumns
    /\ status = Blank.status
    /\ filtered_df = Blank.filtered_df
    /\ risk_counts = Blank.risk_counts
    /\ hist = Blank.hist
    /\ edges = Blank.edges
    /\ diag_counts = Blank.diag_counts
    /\ heat = Blank.heat
    /\ heatmap_data = Blank.heatmap_data
    /\ summary_table = Blank.summary_table

Init == InitWith(FileRows)
InitRaw == InitWith(RawFileRows)

\* the page is opened: the first execution, with the defaults
OpenPage ==
    /\ status = "idle"
    /\ Execute(age_range[1], age_range[2], gender_filter, country_filter,
               bin_count, heatmap_cols)

SetAgeRange ==
    /\ status # "idle"
    /\ \E r \in AgeRangeChoices :
          /\ AgeSliderMin <= r[1] /\ r[1] <= r[2] /\ r[2] <= AgeSliderMax
          /\ Execute(r[1], r[2], gender_filter, country_filter, bin_count, heatmap_cols)

SetGender ==
    /\ status # "idle"
    /\ \E g \in GenderOptions(df) :
          Execute(age_range[1], age_range[2], g, country_filter, bin_count, heatmap_cols)

SetCountry ==
    /\ status # "idle"
    /\ \E c \in CountryOptions(df) :
          Execute(age_range[1], age_range[2], gender_filter, c, bin_count, heatmap_cols)

SetBinCount ==
    /\ status # "idle"
    /\ \E n \in BinChoices :
          /\ BinSliderMin <= n /\ n <= BinSliderMax
          /\ Execute(age_range[1], age_range[2], gender_filter, country_filter, n,
                     heatmap_cols)

SetHeatmapCols ==
    /\ status # "idle"
    /\ \E cols \in HeatmapChoices :
          Execute(age_range[1], age_range[2], gender_filter, country_filter, bin_count,
                  cols)

Next ==
    \/ OpenPage
    \/ SetAgeRange
    \/ SetGender
    \/ SetCountry
    \/ SetBinCount
    \/ SetHeatmapCols

Spec == Init /\ [][Next]_vars

\* the bin slider moved by one step (an arrow key); every position of the
\* slider is reached this way
StepBinCount ==
    /\ status # "idle"
    /\ \E n \in {bin_count - 1, bin_count + 1} :
          /\ BinSliderMin <= n /\ n <= BinSliderMax
          /\ Execute(age_range[1], age_range[2], gender_filter, country_filter, n,
                     heatmap_cols)

\* the executions that vary what the histogram is computed from: the age
\* range and every bin count of the slider
NextHist ==
    \/ OpenPage
    \/ SetAgeRange
    \/ StepBinCount

SpecHist == Init /\ [][NextHist]_vars
SpecRaw == InitRaw /\ [][Next]_vars

(***************************************************************************)
(* Properties.                                                             *)
(***************************************************************************)
Ran == status # "idle"

\* the predicate of the current widget values on a row
Selected(r) ==
    /\ r.Age # NaN
    /\ r.Age \in age_range[1]..age_range[2]
    /\ (gender_filter = "All" \/ r.Gender = gender_filter)
    /\ (country_filter = "All" \/ r.Country = country_filter)

InView(e) == \E k \in DOMAIN filtered_df : filtered_df[k] = e

RECURSIVE SeqSum(_)
SeqSum(q) == IF q = <<>> THEN 0 ELSE Head(q) + SeqSum(Tail(q))

\* C1: after every execution the filtered view holds exactly the rows of the
\* table whose Age is present and within the inclusive age range and whose
\* Gender and Country equal the selected ones (or "All" is selected).
C1_ExactRows ==
    Ran => /\ status = "ok"
           /\ \A i \in DOMAIN df : InView(df[i]) <=> Selected(df[i].row)
           /\ \A k \in DOMAIN filtered_df : \E i \in DOMAIN df : filtered_df[k] = df[i]

\* a row on each bound of the age range is kept and the gender filter drops one
C1_Witness ==
    /\ status = "ok"
    /\ age_range = <<25, 70>>
    /\ gender_filter = "F"
    /\ \E i \in DOMAIN df : df[i].row.Age = 25 /\ InView(df[i])
    /\ \E i \in DOMAIN df : df[i].row.Age = 70 /\ ~InView(df[i])

\* C2: the filtered view is a subsequence of the table (rows of the table,
\* each at most once, in the table's order) and the summary table lists the
\* same rows in the same order.
C2_Subsequence ==
    Ran => /\ \A k \in DOMAIN filtered_df :
                \E i \in DOMAIN df : df[i].index = filtered_df[k].index
                                     /\ df[i].row = filtered_df[k].row
           /\ \A k \in DOMAIN filtered_df : \A m \in DOMAIN filtered_df :
                k < m => filtered_df[k].index < filtered_df[m].index
           /\ Len(summary_table) = Len(filtered_df)
           /\ \A k \in DOMAIN filtered_df : summary_table[k].row = filtered_df[k].row

\* two rows are kept around one that is dropped
C2_Witness ==
    /\ status = "ok"
    /\ Len(df) = 3
    /\ Len(filtered_df) = 2
    /\ filtered_df[1].index = 0
    /\ filtered_df[2].index = 2
    /\ filtered_df[1].row # filtered_df[2].row
    /\ Len(summary_table) = 2

\* C3: when no row is selected the execution does not fail, the category
\* counts are empty, the histogram has no bins and no correlation matrix is
\* computed.
C3_EmptyViewNoData ==
    (Ran /\ filtered_df = <<>>) =>
        /\ status = "ok"
        /\ risk_counts = <<>>
        /\ diag_counts = <<>>
        /\ hist = <<>>
        /\ heat # "matrix"

\* C4: with fewer than two columns selected no matrix is handed over and the
\* warning is shown; with two or more there is one coefficient for every
\* ordered pair of the selected columns and for nothing else.
C4_HeatmapGuard ==
    Ran => /\ status = "ok"
           /\ Len(heatmap_cols) < 2 => heat = "warning" /\ heatmap_data = <<>>
           /\ Len(heatmap_cols) >= 2 =>
                /\ heat = "matrix"
                /\ Len(heatmap_data) = Len(heatmap_cols) * Len(heatmap_cols)
                /\ \A i \in DOMAIN heatmap_cols : \A j \in DOMAIN heatmap_cols :
                      \E p \in DOMAIN heatmap_data :
                          /\ heatmap_data[p].x = heatmap_cols[i]
                          /\ heatmap_data[p].y = heatmap_cols[j]
                          /\ heatmap_data[p].value \in (-100..100) \cup {NaNCoef}

\* a single column gives the warning
C4_Witness ==
    /\ status = "ok"
    /\ Len(heatmap_cols) = 1
    /\ heat = "warning"
    /\ Len(filtered_df) >= 2

\* C5: a row whose Age cell is empty or is not a number never makes an
\* execution fail and is never in the filtered view.
C5_BadAgeExcluded ==
    Ran => /\ status = "ok"
           /\ \A k \in DOMAIN filtered_df :
                filtered_df[k].row.Age \notin {NaN, Unparseable}

\* C6: the histogram has bin_count bins and its counts sum to the number of
\* rows of the filtered view whose Age is present.
C6_HistogramTotal ==
    Ran => /\ status = "ok"
           /\ Len(hist) = bin_count
           /\ SeqSum(hist) =
                Cardinality({ k \in DOMAIN filtered_df : filtered_df[k].row.Age # NaN })

\* two bins are filled from a table that also has a row without Age
C6_Witness ==
    /\ status = "ok"
    /\ \E i \in DOMAIN df : df[i].row.Age = NaN
    /\ Len(filtered_df) = 2
    /\ bin_count = BinSliderMax
    /\ hist[1] = 1
    /\ hist[bin_count] = 1

CountsExact(counts, col) ==
    /\ \A k \in DOMAIN counts : \A m \in DOMAIN counts :
          counts[k].label = counts[m].label => k = m
    /\ { counts[k].label : k \in DOMAIN counts } = { col[i] : i \in DOMAIN col } \ {NoLabel}
    /\ \A k \in DOMAIN counts :
          counts[k].count = Cardinality({ i \in DOMAIN col : col[i] = counts[k].label })
    /\ SeqSum([k \in DOMAIN counts |-> counts[k].count]) =
          Cardinality({ i \in DOMAIN col : col[i] # NoLabel })

\* C7: the risk counts and the diagnosis counts have one entry per distinct
\* present value of their column in the filtered view, each with the number
\* of rows that carry it, and sum to the number of rows with a present value.
C7_CategoryCounts ==
    Ran => /\ status = "ok"
           /\ CountsExact(risk_counts,
                          [k \in DOMAIN filtered_df |-> filtered_df[k].row.Thyroid_Cancer_Risk])
           /\ CountsExact(diag_counts,
                          [k \in DOMAIN filtered_df |-> filtered_df[k].row.Diagnosis])

\* a view with a repeated label, a second label and a row without label
C7_Witness ==
    /\ status = "ok"
    /\ Len(filtered_df) = 3
    /\ Len(diag_counts) = 1
    /\ diag_counts[1].count = 2
    /\ Len(risk_counts) = 1
    /\ \E k \in DOMAIN filtered_df : filtered_df[k].row.Diagnosis = NoLabel

\* C8: whatever executions came before, the filtered view is the one a
\* first execution computes from the file and the current widget values.
C8_FreshRun ==
    Ran => /\ df = read_csv(csv)
           /\ filtered_df = FilterStage(read_csv(csv), age_range[1], age_range[2],
                                        gender_filter, country_filter)

\* the view is wide again after it has been narrowed
C8_Witness ==
    /\ status = "ok"
    /\ age_range = <<AgeSliderMin, AgeSliderMax>>
    /\ gender_filter = "All"
    /\ country_filter = "All"
    /\ bin_count # BinDefault
    /\ heatmap_cols # NumericColumns
    /\ Len(filtered_df) = 3

\* C9: the file is read at most once, and once the table is loaded no
\* execution changes it, the cache or the file.
C9_TableImmutable ==
    [][/\ reads' <= 1
       /\ csv' = csv
       /\ cache'.filled => cache'.value = read_csv(csv) /\ df' = cache'.value
       /\ cache.filled => cache' = cache /\ df' = df /\ reads' = reads]_vars

\* an execution after the first has run on the cached table
C9_Witness ==
    /\ status = "ok"
    /\ reads = 1
    /\ cache.filled
    /\ Len(df) = 3
    /\ gender_filter # "All"
    /\ Len(filtered_df) < Len(df)

\* the value v lies in bin k of the edges handed to the page: from the lower
\* edge up to but not including the upper edge, the last bin including it
InBin(v, k) ==
    /\ edges[k] <= EdgeDen(bin_count) * v
    /\ \/ EdgeDen(bin_count) * v < edges[k + 1]
       \/ k = bin_count /\ EdgeDen(bin_count) * v = edges[k + 1]

ViewAges == { filtered_df[k].row.Age : k \in DOMAIN filtered_df }

BinsPartition ==
    /\ Len(hist) = bin_count
    /\ Len(edges) = bin_count + 1
    /\ \A k \in 1..bin_count : edges[k + 1] - edges[k] = edges[2] - edges[1]
    /\ edges[2] > edges[1]
    /\ \A v \in ViewAges : \E k \in 1..bin_count :
          InBin(v, k) /\ \A m \in 1..bin_count : InBin(v, m) => m = k
    /\ \A k \in 1..bin_count :
          hist[k] = Cardinality({ i \in DOMAIN filtered_df : InBin(filtered_df[i].row.Age, k) })

\* the edges run from lo to hi
EdgesSpan(lo2, hi2) ==
    /\ 2 * edges[1] = EdgeDen(bin_count) * lo2
    /\ 2 * edges[bin_count + 1] = EdgeDen(bin_count) * hi2

\* C10 as stated: the bins divide [min, max] of the filtered values into
\* bin_count equal intervals, every value lies in exactly one of them, half
\* open except the last, and the maximum lies in the last.
C10_SpansMinMax ==
    (Ran /\ filtered_df # <<>>) =>
        /\ BinsPartition
        /\ \A lo \in ViewAges : \A hi \in ViewAges :
              (\A v \in ViewAges : lo <= v /\ v <= hi) =>
                  /\ EdgesSpan(2 * lo, 2 * hi)
                  /\ InBin(hi, bin_count)

\* C10 amended: for a filtered view that is not empty the bins divide
\* [lo, hi] into bin_count equal intervals, where [lo, hi] is [min, max] of
\* the filtered values when they differ and [min - 1/2, max + 1/2] when all
\* are equal; every value lies in exactly one bin, half open except the
\* last, and when the values differ the maximum lies in the last bin.
C10_EqualWidthBins ==
    (Ran /\ filtered_df # <<>>) =>
           /\ status = "ok"
           /\ BinsPartition
           /\ \A lo \in ViewAges : \A hi \in ViewAges :
                 (\A v \in ViewAges : lo <= v /\ v <= hi) =>
                     IF lo = hi
                     THEN EdgesSpan(2 * lo - 1, 2 * hi + 1)
                     ELSE EdgesSpan(2 * lo, 2 * hi) /\ InBin(hi, bin_count)

\* a value on an inner edge is counted in the bin that starts there
C10_Witness ==
    /\ status = "ok"
    /\ ViewAges = {25, 52, 70}
    /\ bin_count = BinSliderMin
    /\ EdgeDen(bin_count) * 52 = edges[4]
    /\ hist = <<1, 0, 0, 1, 1>>

====
